---- MODULE Spec2Model ----
(***************************************************************************)
(* A model of the student spending analyzer (StudentSpendAnalyzer) and of  *)
(* the application that drives it (SpendAnalysisApp, main).                *)
(*                                                                         *)
(* Numbers.  Money is counted in thousandths of the currency unit, so      *)
(* 100000 is 100.000 and toFixed(2) rounds to a multiple of 10.            *)
(* Percentages that the code rounds with toFixed(1) are counted in tenths  *)
(* of a percent, so 500 is 50.0%.  A value the code keeps unrounded (the   *)
(* utilization handed to getBudgetStatus) is an exact fraction             *)
(* [num, den].  Arithmetic is exact; toFixed rounds half away from zero.   *)
(*                                                                         *)
(* JavaScript values.  A field that may be absent, a number or a string is *)
(* a tagged record [type, val]; a text field is a string, "" standing for  *)
(* both the empty string and an absent field (the code tests both with !). *)
(***************************************************************************)
EXTENDS Integers, Sequences, FiniteSets, TLC

VARIABLES
  data,        \* StudentSpendAnalyzer.data
  result,      \* what the last call on the analyzer returned or threw
  aiInsights,  \* SpendAnalysisApp.aiInsights: "null" or "generator"
  pc,          \* position of main
  queue,       \* the student ids the running loop still has to process
  attempted,   \* the ids SpendAnalysisApp.analyzeStudent was entered with
  analyzed,    \* number of analyzer.analyzeStudent calls made by the app
  validated,   \* validateData has passed on the value now in data
  reports,     \* names of the report files written
  aiLog,       \* per attempted record: the collaborator calls and saveReport
  history      \* what was observed of the analyzer since its construction

vars == <<data, result, aiInsights, pc, queue, attempted, analyzed, validated,
          reports, aiLog, history>>

----------------------------------------------------------------------------
(* JavaScript values *)

Undefined == [type |-> "undefined", val |-> 0]

Num(n) == [type |-> "number", val |-> n]

\* a string where a number is expected, e.g. "amount": "abc"
Str == [type |-> "string", val |-> 0]

NoArray == [type |-> "undefined", items |-> <<>>]

Arr(s) == [type |-> "array", items |-> s]

DataNull == [kind |-> "null", students |-> <<>>]

\* a parsed object that has no students array
DataNoStudents == [kind |-> "noStudents", students |-> <<>>]

Dataset(s) == [kind |-> "dataset", students |-> s]

NoResult == [kind |-> "none"]

Threw(msg) == [kind |-> "error", error |-> msg]

----------------------------------------------------------------------------
(* Arithmetic *)

\* n / d rounded to the nearest integer, halves away from zero (d > 0)
RoundDiv(n, d) ==
  IF n >= 0 THEN (2 * n + d) \div (2 * d)
            ELSE 0 - ((2 * (0 - n) + d) \div (2 * d))

\* parseFloat((n / d).toFixed(2)), n / d in thousandths
ToFixed2(n, d) == 10 * RoundDiv(n, 10 * d)

\* the percentage rounded to a whole percent, toFixed(0), in tenths
PercentToFixed0(n, d) == 10 * RoundDiv(100 * n, d)

\* parseFloat(((n / d) * 100).toFixed(1)) in tenths of a percent
PercentToFixed1(n, d) == RoundDiv(1000 * n, d)

RECURSIVE SumRoundedAmounts(_)
\* the reduce with every amount rounded to 2 decimals before it is added
SumRoundedAmounts(ts) ==
  IF ts = <<>> THEN 0
  ELSE SumRoundedAmounts(SubSeq(ts, 1, Len(ts) - 1))
         + ToFixed2(ts[Len(ts)].amount.val, 1)

RECURSIVE SumAmounts(_)
\* transactions.reduce((sum, t) => sum + t.amount, 0) over numeric amounts
SumAmounts(ts) ==
  IF ts = <<>> THEN 0
  ELSE SumAmounts(SubSeq(ts, 1, Len(ts) - 1)) + ts[Len(ts)].amount.val

\* the reduce yields a string as soon as one amount is a string
HasStringAmount(ts) == \E i \in 1..Len(ts) : ts[i].amount.type = "string"

\* the reduce yields NaN when an amount is undefined (and none is a string)
HasUndefinedAmount(ts) == \E i \in 1..Len(ts) : ts[i].amount.type = "undefined"

----------------------------------------------------------------------------
(* Helper functions of the analyzer *)

Status(label) == label

\* getBudgetStatus with the last band closed below 100: a utilization of
\* exactly 100 is already "Over Budget"
getBudgetStatusStrict(u) ==
  IF u.num <= 50 * u.den THEN Status("Conservative")
  ELSE IF u.num <= 75 * u.den THEN Status("Moderate")
  ELSE IF u.num <= 90 * u.den THEN Status("High")
  ELSE IF u.num < 100 * u.den THEN Status("Near Limit")
  ELSE Status("Over Budget")

\* getBudgetStatus(utilizationPercentage), the percentage an exact fraction
getBudgetStatus(u) ==
  IF u.num <= 50 * u.den THEN Status("Conservative")
  ELSE IF u.num <= 75 * u.den THEN Status("Moderate")
  ELSE IF u.num <= 90 * u.den THEN Status("High")
  ELSE IF u.num <= 100 * u.den THEN Status("Near Limit")
  ELSE Status("Over Budget")

\* the days counted as transactions.length, one per transaction
countTransactions(ts) == Len(ts)

\* new Set(transactions.map(t => t.date)).size
getUniqueDays(ts) == Cardinality({ts[i].date : i \in 1..Len(ts)})

\* The value of a property key that is an array index (a canonical decimal
\* integer), -1 for any other key.
IndexValue(key) ==
  CASE key = "0" -> 0 [] key = "1" -> 1 [] key = "2" -> 2 [] key = "3" -> 3
    [] key = "4" -> 4 [] key = "5" -> 5 [] key = "6" -> 6 [] key = "7" -> 7
    [] key = "8" -> 8 [] key = "9" -> 9 [] OTHER -> 0 - 1

IsArrayIndex(key) == IndexValue(key) >= 0

RECURSIVE FirstSeen(_)
\* the distinct keys of a sequence of keys, in the order of first occurrence
FirstSeen(keys) ==
  IF keys = <<>> THEN <<>>
  ELSE LET front == FirstSeen(SubSeq(keys, 1, Len(keys) - 1))
           k == keys[Len(keys)]
       IN IF \E i \in 1..Len(front) : front[i] = k THEN front
          ELSE Append(front, k)

RECURSIVE AscendingIndexKeys(_)
\* the array-index keys of a set, ascending by value
AscendingIndexKeys(S) ==
  IF S = {} THEN <<>>
  ELSE LET m == CHOOSE k \in S : \A o \in S : IndexValue(k) <= IndexValue(o)
       IN <<m>> \o AscendingIndexKeys(S \ {m})

\* The order in which Object.entries / Object.values enumerate an object
\* whose keys were created in the order `created`: array-index keys first,
\* ascending, then the other keys in creation order.
OwnKeys(created) ==
  AscendingIndexKeys({k \in {created[i] : i \in 1..Len(created)} : IsArrayIndex(k)})
    \o SelectSeq(created, LAMBDA k : ~IsArrayIndex(k))

\* A key that the object literal {} inherits from Object.prototype with a
\* function as its value: (totals[key] || 0) + t.amount then concatenates
\* the function's source text and the amount into a string.
InheritedKey(key) ==
  key \in {"constructor", "toString", "valueOf", "hasOwnProperty"}

\* amount.toFixed(2) throws in the map over Object.entries when the amount
\* stored under some key is such a string
HasInheritedKey(keys) == \E i \in 1..Len(keys) : InheritedKey(keys[i])

\* the transactions of one category, of one date
WithCategory(ts, k) == SelectSeq(ts, LAMBDA t : t.category = k)

WithDate(ts, k) == SelectSeq(ts, LAMBDA t : t.date = k)

\* The least index of a non-empty set of indices
First(indices) == CHOOSE i \in indices : \A j \in indices : i <= j

\* Array.prototype.sort is stable: an element is placed behind every element
\* the comparator does not put it strictly before.
InsertAt(sorted, e, ahead) ==
  LET pos == IF ahead = {} THEN Len(sorted) + 1 ELSE First(ahead)
  IN SubSeq(sorted, 1, pos - 1) \o <<e>> \o SubSeq(sorted, pos, Len(sorted))

\* new Date(date).getTime(), in days; two spellings may name one day
DateValue(date) ==
  CASE date = "2024-01-01" -> 1
    [] date = "2024-01-02" -> 2
    [] date = "2024-01-03" -> 3
    [] date = "2024-01-01T00:00:00Z" -> 1
    [] OTHER -> 0

----------------------------------------------------------------------------
(* Spending calculations; ts is a sequence of transactions with numeric *)
(* amounts, budget a number                                             *)

\* calculateSpendingMetrics with the average taken of the rounded total
calculateSpendingMetricsOfRounded(ts) ==
  IF Len(ts) = 0
  THEN [total |-> 0, average |-> 0, transactionCount |-> 0, dailyAverage |-> 0]
  ELSE LET total == ToFixed2(SumAmounts(ts), 1)
           uniqueDays == getUniqueDays(ts)
       IN [total |-> total,
           average |-> ToFixed2(total, Len(ts)),
           transactionCount |-> Len(ts),
           dailyAverage |-> IF uniqueDays > 0 THEN ToFixed2(total, uniqueDays)
                            ELSE 0]

calculateSpendingMetrics(ts) ==
  IF Len(ts) = 0
  THEN [total |-> 0, average |-> 0, transactionCount |-> 0, dailyAverage |-> 0]
  ELSE LET total == SumAmounts(ts)
           uniqueDays == getUniqueDays(ts)
       IN [total |-> ToFixed2(total, 1),
           average |-> ToFixed2(total, Len(ts)),
           transactionCount |-> Len(ts),
           dailyAverage |-> IF uniqueDays > 0 THEN ToFixed2(total, uniqueDays)
                            ELSE 0]

\* budget > 0 ? (totalSpent / budget) * 100 : 0, unrounded
utilizationPercentage(totalSpent, budget) ==
  IF budget > 0 THEN [num |-> 100 * totalSpent, den |-> budget]
  ELSE [num |-> 0, den |-> 1]

\* analyzeBudget without the budget > 0 guard: the quotient by a budget of 0
\* is Infinity or NaN, which no finite utilization equals (here -1)
analyzeBudgetUnguarded(ts, budget) ==
  LET totalSpent == SumAmounts(ts)
      remaining == budget - totalSpent
  IN [allocated |-> budget,
      spent |-> ToFixed2(totalSpent, 1),
      remaining |-> ToFixed2(remaining, 1),
      utilization |-> IF budget # 0 THEN PercentToFixed1(totalSpent, budget)
                      ELSE 0 - 1,
      status |-> getBudgetStatus(utilizationPercentage(totalSpent, budget)),
      isOverBudget |-> totalSpent > budget]

analyzeBudget(ts, budget) ==
  LET totalSpent == SumAmounts(ts)
      remaining == budget - totalSpent
  IN [allocated |-> budget,
      spent |-> ToFixed2(totalSpent, 1),
      remaining |-> ToFixed2(remaining, 1),
      utilization |-> IF budget > 0 THEN PercentToFixed1(totalSpent, budget)
                      ELSE 0,
      status |-> getBudgetStatus(utilizationPercentage(totalSpent, budget)),
      isOverBudget |-> totalSpent > budget]

\* the keys of categoryTotals in the order the forEach creates them
categoryKeysCreated(ts) == FirstSeen([i \in 1..Len(ts) |-> ts[i].category])

\* one element of the mapped array of analyzeCategoricalSpending
categoryEntry(ts, category, totalSpent) ==
  LET amount == SumAmounts(WithCategory(ts, category))
      count == Len(WithCategory(ts, category))
  IN [name |-> category,
      amount |-> ToFixed2(amount, 1),
      percentage |-> IF totalSpent > 0 THEN PercentToFixed1(amount, totalSpent)
                     ELSE 0,
      transactionCount |-> count,
      averagePerTransaction |-> ToFixed2(amount, count)]

RECURSIVE sortByAmountDescending(_)
\* categories.sort((a, b) => b.amount - a.amount)
sortByAmountDescending(cs) ==
  IF cs = <<>> THEN <<>>
  ELSE LET sorted == sortByAmountDescending(SubSeq(cs, 1, Len(cs) - 1))
           e == cs[Len(cs)]
       IN InsertAt(sorted, e, {i \in 1..Len(sorted) : e.amount > sorted[i].amount})

analyzeCategoricalSpending(ts) ==
  LET keys == OwnKeys(categoryKeysCreated(ts))
      totalSpent == SumAmounts(ts)
  IN sortByAmountDescending(
       [i \in 1..Len(keys) |-> categoryEntry(ts, keys[i], totalSpent)])

\* the keys of dailySpending in the order the forEach creates them
dateKeysCreated(ts) == FirstSeen([i \in 1..Len(ts) |-> ts[i].date])

\* the entries left in the order of Object.entries, not sorted
keepEntryOrder(ds) == ds

RECURSIVE sortByDateAscending(_)
\* .sort((a, b) => new Date(a.date) - new Date(b.date))
sortByDateAscending(ds) ==
  IF ds = <<>> THEN <<>>
  ELSE LET sorted == sortByDateAscending(SubSeq(ds, 1, Len(ds) - 1))
           e == ds[Len(ds)]
       IN InsertAt(sorted, e,
            {i \in 1..Len(sorted) : DateValue(e.date) < DateValue(sorted[i].date)})

\* sortedDays[0] without the || default: undefined, which carries no date
\* and no amount
NoDayUndefined == [date |-> "undefined", amount |-> 0 - 1]

NoDay == [date |-> "null", amount |-> 0]

RECURSIVE highestOfLatest(_, _)
\* the reduce with >= for >: of several days with the highest amount the
\* latest is kept
highestOfLatest(days, first) ==
  IF days = <<>> THEN first
  ELSE LET max == highestOfLatest(SubSeq(days, 1, Len(days) - 1), first)
           day == days[Len(days)]
       IN IF day.amount >= max.amount THEN day ELSE max

RECURSIVE highestOf(_, _)
\* sortedDays.reduce((max, day) => day.amount > max.amount ? day : max, first)
highestOf(days, first) ==
  IF days = <<>> THEN first
  ELSE LET max == highestOf(SubSeq(days, 1, Len(days) - 1), first)
           day == days[Len(days)]
       IN IF day.amount > max.amount THEN day ELSE max

RECURSIVE lowestOf(_, _)
\* sortedDays.reduce((min, day) => day.amount < min.amount ? day : min, first)
lowestOf(days, first) ==
  IF days = <<>> THEN first
  ELSE LET min == lowestOf(SubSeq(days, 1, Len(days) - 1), first)
           day == days[Len(days)]
       IN IF day.amount < min.amount THEN day ELSE min

analyzeSpendingTimeline(ts) ==
  LET keys == OwnKeys(dateKeysCreated(ts))
      sortedDays == sortByDateAscending(
        [i \in 1..Len(keys) |->
           [date |-> keys[i], amount |-> ToFixed2(SumAmounts(WithDate(ts, keys[i])), 1)]])
      first == IF sortedDays = <<>> THEN NoDay ELSE sortedDays[1]
  IN [dailySpending |-> sortedDays,
      highestSpendingDay |-> highestOf(sortedDays, first),
      lowestSpendingDay |-> lowestOf(sortedDays, first)]

----------------------------------------------------------------------------
(* The summary for the narrative generator.  The text is a sequence of     *)
(* lines; a line is its fixed wording with the strings and the numbers the *)
(* template interpolates into it, in their order.                           *)

Line(text, strs, nums) == [text |-> text, strs |-> strs, nums |-> nums]

Blank == Line("", <<>>, <<>>)

\* categoryText with analysis.categories reversed in place before the map
categoryTextReversing(categories) ==
  LET n == Len(categories)
      reversed == [i \in 1..n |-> categories[n + 1 - i]]
  IN [line |-> Line("", [i \in 1..n |-> reversed[i].name],
                    [i \in 1..(2 * n) |->
                       IF i % 2 = 1 THEN reversed[(i + 1) \div 2].amount
                       ELSE reversed[i \div 2].percentage]),
      categories |-> reversed]

\* analysis.categories.map(c => `${c.name}: $${c.amount} (${c.percentage}%)`)
\* .join(', '): the line, and the array as the map leaves it
categoryText(categories) ==
  [line |-> Line("", [i \in 1..Len(categories) |-> categories[i].name],
                 [i \in 1..(2 * Len(categories)) |->
                    IF i % 2 = 1 THEN categories[(i + 1) \div 2].amount
                    ELSE categories[i \div 2].percentage]),
   categories |-> categories]

\* generateSummaryForAI(analysis): the trimmed text, and the analysis as the
\* call leaves it
generateSummaryForAI(analysis) ==
  [kind |-> "summary",
   text |->
     <<Line("STUDENT PROFILE:", <<>>, <<>>),
       Line("Name: ", <<analysis.studentInfo.name>>, <<>>),
       Line("Student ID: ", <<analysis.studentInfo.id>>, <<>>),
       Line("Semester: ", <<analysis.studentInfo.semester>>, <<>>),
       Blank,
       Line("BUDGET ANALYSIS:", <<>>, <<>>),
       Line("Monthly Budget: $", <<>>, <<analysis.budget.allocated>>),
       Line("Total Spent: $", <<>>, <<analysis.budget.spent>>),
       Line("Budget Utilization: %", <<>>, <<analysis.budget.utilization>>),
       Line("Status: ", <<analysis.budget.status>>, <<>>),
       Line("Remaining Budget: $", <<>>, <<analysis.budget.remaining>>),
       Blank,
       Line("SPENDING PATTERNS:", <<>>, <<>>),
       Line("Total Transactions: ", <<>>, <<analysis.spending.transactionCount>>),
       Line("Average Transaction: $", <<>>, <<analysis.spending.average>>),
       Line("Daily Average Spending: $", <<>>, <<analysis.spending.dailyAverage>>),
       Blank,
       Line("CATEGORY BREAKDOWN:", <<>>, <<>>),
       categoryText(analysis.categories).line,
       Blank,
       Line("SPENDING TIMELINE:", <<>>, <<>>),
       Line("Highest spending day:  ($)",
            <<analysis.timeline.highestSpendingDay.date>>,
            <<analysis.timeline.highestSpendingDay.amount>>),
       Line("Lowest spending day:  ($)",
            <<analysis.timeline.lowestSpendingDay.date>>,
            <<analysis.timeline.lowestSpendingDay.amount>>)>>,
   analysis |-> [analysis EXCEPT !.categories = categoryText(@).categories]]

----------------------------------------------------------------------------
(* Data validation *)

Passed == [kind |-> "ok"]

\* the Error validateData throws: its message and the 1-based numbers the
\* message carries (0: the message carries none)
ValidationError(message, student, transaction) ==
  [kind |-> "error", error |-> <<message>>, student |-> student,
   transaction |-> transaction]

\* !v for a field that may be absent, a number or a non-empty string
Falsy(v) == v.type = "undefined" \/ (v.type = "number" /\ v.val = 0)

\* !transaction.date || !transaction.category || transaction.amount === undefined
transactionInvalid(t) ==
  t.date = "" \/ t.category = "" \/ t.amount.type = "undefined"

\* !student.studentId || !student.name || !student.monthlyBudget
studentFieldsInvalid(student) ==
  student.studentId = "" \/ student.name = "" \/ Falsy(student.monthlyBudget)

\* the body of the forEach over the students, for the student at 1-based
\* position number
validateStudent(student, number) ==
  IF studentFieldsInvalid(student)
  THEN ValidationError("Missing required fields", number, 0)
  ELSE IF student.transactions.type # "array"
  THEN ValidationError("Missing or invalid transactions", number, 0)
  ELSE LET ts == student.transactions.items
           bad == {t \in 1..Len(ts) : transactionInvalid(ts[t])}
       IN IF bad = {} THEN Passed
          ELSE ValidationError("Missing required fields", number, First(bad))

\* validateData with one pass over the dataset per check instead of one pass
\* per record
validateDataByPhase(d) ==
  IF d.kind # "dataset"
  THEN ValidationError("Invalid data structure: Missing students array", 0, 0)
  ELSE LET n == Len(d.students)
           fields == {i \in 1..n : studentFieldsInvalid(d.students[i])}
           arrays == {i \in 1..n : d.students[i].transactions.type # "array"}
           failing == {i \in 1..n : validateStudent(d.students[i], i).kind = "error"}
       IN IF fields # {}
          THEN ValidationError("Missing required fields", First(fields), 0)
          ELSE IF arrays # {}
          THEN ValidationError("Missing or invalid transactions", First(arrays), 0)
          ELSE IF failing = {} THEN Passed
          ELSE validateStudent(d.students[First(failing)], First(failing))

validateData(d) ==
  IF d.kind # "dataset"
  THEN ValidationError("Invalid data structure: Missing students array", 0, 0)
  ELSE LET failing == {i \in 1..Len(d.students) :
                         validateStudent(d.students[i], i).kind = "error"}
       IN IF failing = {} THEN Passed
          ELSE validateStudent(d.students[First(failing)], First(failing))

----------------------------------------------------------------------------
(* Lookup and the main analysis function *)

TypeError == [kind |-> "error", error |-> <<"TypeError">>]

\* this.data ? this.data.students.map(s => s.studentId) : []
getStudentIds(d) ==
  IF d.kind = "null" THEN [kind |-> "ids", ids |-> <<>>]
  ELSE IF d.kind = "noStudents" THEN TypeError
  ELSE [kind |-> "ids", ids |-> [i \in 1..Len(d.students) |-> d.students[i].studentId]]

\* find with the first record taken whatever its id, as with
\* s.studentId = studentId for s.studentId === studentId
findFirstStudent(d, studentId) == IF Len(d.students) = 0 THEN 0 ELSE 1

\* this.data.students.find(s => s.studentId === studentId): its position, 0
\* when there is none
findStudent(d, studentId) ==
  LET hits == {i \in 1..Len(d.students) : d.students[i].studentId = studentId}
  IN IF hits = {} THEN 0 ELSE First(hits)

\* the not-found error with the id left out of the message
NotFoundUnnamed(studentId) == Threw(<<"Student not found">>)

\* new Error(`Student ${studentId} not found`)
NotFound(studentId) == Threw(<<"Student ", studentId, " not found">>)

analyzeStudent(d, studentId) ==
  IF d.kind = "null" THEN Threw(<<"No data loaded. Call loadData() first.">>)
  ELSE IF d.kind = "noStudents" THEN TypeError
  ELSE IF findStudent(d, studentId) = 0 THEN NotFound(studentId)
  ELSE LET student == d.students[findStudent(d, studentId)]
           ts == student.transactions.items
       IN IF student.transactions.type # "array" THEN TypeError
          ELSE IF HasStringAmount(ts) THEN TypeError
          ELSE IF HasInheritedKey(categoryKeysCreated(ts))
                    \/ HasInheritedKey(dateKeysCreated(ts))
          THEN TypeError
          ELSE IF HasUndefinedAmount(ts) \/ student.monthlyBudget.type # "number"
          THEN [kind |-> "nan", id |-> student.studentId,
                spending |-> [transactionCount |-> Len(ts)]]
          ELSE [kind |-> "analysis",
                studentInfo |-> [id |-> student.studentId, name |-> student.name,
                                 semester |-> student.semester,
                                 budget |-> student.monthlyBudget.val],
                spending |-> calculateSpendingMetrics(ts),
                budget |-> analyzeBudget(ts, student.monthlyBudget.val),
                categories |-> analyzeCategoricalSpending(ts),
                timeline |-> analyzeSpendingTimeline(ts)]

\* The dataset after an analysis that sorts the record's transactions by
\* date in place (student.transactions.sort(...)) instead of sorting the
\* array it has just built
dataAfterAnalysisSortingInPlace(d, studentId) ==
  IF d.kind # "dataset" THEN d
  ELSE IF findStudent(d, studentId) = 0 THEN d
  ELSE IF d.students[findStudent(d, studentId)].transactions.type # "array" THEN d
  ELSE [d EXCEPT !.students[findStudent(d, studentId)].transactions.items =
                   sortByDateAscending(@)]

\* this.data after analyzeStudent(studentId): the function and the four
\* calculations assign to no field of this, of a record or of a transaction;
\* both sorts are applied to arrays built by map
dataAfterAnalysis(d, studentId) == d

----------------------------------------------------------------------------
(* Inputs *)

MaxStudents == 2

MaxTx == 3

SeqsUpTo(S, n) == UNION {[1..k -> S] : k \in 0..n}

Student(id, name, budget, transactions) ==
  [studentId |-> id, name |-> name, semester |-> "Fall 2024",
   monthlyBudget |-> budget, transactions |-> transactions]

Tx(date, category, amount) ==
  [date |-> date, category |-> category, amount |-> amount]

GoodTx == Tx("2024-01-01", "Food", Num(5000))

ZeroTx == Tx("2024-01-02", "Books", Num(0))

NoAmountTx == Tx("2024-01-01", "Food", Undefined)

NoDateTx == Tx("", "Food", Num(5000))

NoCategoryTx == Tx("2024-01-01", "", Num(5000))

\* id, name and budget of a record: complete, or with one field defective
RecordFieldCases ==
  {[id |-> "S1", name |-> "Ann", budget |-> Num(100000)],
   [id |-> "S2", name |-> "Bob", budget |-> Num(100000)],
   [id |-> "", name |-> "Ann", budget |-> Num(100000)],
   [id |-> "S1", name |-> "", budget |-> Num(100000)],
   [id |-> "S1", name |-> "Ann", budget |-> Undefined],
   [id |-> "S1", name |-> "Ann", budget |-> Num(0)]}

TransactionCases ==
  {NoArray, Arr(<<>>), Arr(<<GoodTx>>), Arr(<<ZeroTx>>), Arr(<<NoAmountTx>>),
   Arr(<<NoDateTx>>), Arr(<<NoCategoryTx>>), Arr(<<GoodTx, NoAmountTx>>),
   Arr(<<NoDateTx, NoAmountTx>>)}

ValidationStudents ==
  {Student(f.id, f.name, f.budget, c) : f \in RecordFieldCases, c \in TransactionCases}

\* what validateData may be handed
ValidationInputs ==
  {DataNoStudents} \cup {Dataset(s) : s \in SeqsUpTo(ValidationStudents, MaxStudents)}

BudgetAmounts == {0, 40, 1000, 15000, 25000, 50000}

Budgets == {0, 100000}

BudgetInputs ==
  {Dataset(<<Student("S1", "Ann", Num(b), Arr(ts))>>) :
     b \in Budgets,
     ts \in SeqsUpTo({Tx("2024-01-01", "Food", Num(a)) : a \in BudgetAmounts}, MaxTx)}

Categories == {"Food", "Books", "1", "2"}

CategoryAmounts == {0, 1000, 2000}

CategoryInputs ==
  {Dataset(<<Student("S1", "Ann", Num(100000), Arr(ts))>>) :
     ts \in SeqsUpTo({Tx("2024-01-01", c, Num(a)) : c \in Categories, a \in CategoryAmounts},
                     MaxTx)}

LookupStudents ==
  {Student("S1", "Ann", Num(100000), Arr(<<GoodTx>>)),
   Student("S2", "Bob", Num(100000), Arr(<<GoodTx, ZeroTx>>)),
   Student("S1", "Cyd", Num(50000), Arr(<<>>)),
   Student("S2", "Dee", Num(50000), NoArray)}

LookupInputs == {Dataset(s) : s \in SeqsUpTo(LookupStudents, MaxStudents)}

\* amounts with more than 2 decimals (0.004, 0.125) next to the budget
RoundingAmounts == {4, 125, 100000}

RoundingInputs ==
  {Dataset(<<Student("S1", "Ann", Num(100000), Arr(ts))>>) :
     ts \in SeqsUpTo({Tx("2024-01-01", "Food", Num(a)) : a \in RoundingAmounts}, MaxTx)}

Dates == {"2024-01-01", "2024-01-02", "2024-01-03"}

DailyAmounts == {5000, 10000, 40000}

TimelineInputs ==
  {Dataset(<<Student("S1", "Ann", Num(100000), Arr(ts))>>) :
     ts \in SeqsUpTo({Tx(d, "Food", Num(a)) : d \in Dates, a \in DailyAmounts}, MaxTx)}

\* category labels that name a property of Object.prototype
InheritedInputs ==
  {Dataset(<<Student("S1", "Ann", Num(100000), Arr(ts))>>) :
     ts \in SeqsUpTo({Tx("2024-01-01", c, Num(1000)) : c \in {"Food", "constructor"}},
                     MaxTx)}

\* a budget of 400 and four transactions on three days
ScenarioInputs ==
  {Dataset(<<Student("S1", "Ann", Num(400000),
                     Arr(<<Tx("2024-01-01", "Food", Num(120000)),
                           Tx("2024-01-02", "Food", Num(80000)),
                           Tx("2024-01-02", "Books", Num(60000)),
                           Tx("2024-01-03", "Entertainment", Num(40000))>>))>>)}

\* records that are loaded one dataset after the other: two ids, each with
\* two different contents
LifecycleStudents ==
  {Student("S1", "Ann", Num(100000),
           Arr(<<Tx("2024-01-02", "Food", Num(40000)),
                 Tx("2024-01-01", "Books", Num(10000))>>)),
   Student("S2", "Bob", Num(100000), Arr(<<GoodTx, ZeroTx>>)),
   Student("S1", "Cyd", Num(50000), Arr(<<GoodTx>>)),
   Student("S2", "Dee", Num(50000), Arr(<<>>))}

LifecycleInputs == {Dataset(s) : s \in SeqsUpTo(LifecycleStudents, MaxStudents)}

\* what analyzeStudent may be run on, family by family
AnalysisInputs ==
  <<BudgetInputs, CategoryInputs, LookupInputs, RoundingInputs,
    TimelineInputs, InheritedInputs, ScenarioInputs>>

\* the ids analyzeStudent is called with; no record carries "S9"
AnalysisIds == {"S1", "S2", "S9"}

----------------------------------------------------------------------------
(* The analyzer *)

Call(op, arg, out) == [op |-> op, arg |-> arg, out |-> out]

appVars == <<aiInsights, pc, queue, attempted, analyzed, reports, aiLog>>

\* Nothing observed yet: no loadData call, no analysis.  loaded: loadData was
\* called; last: its latest argument; reloaded: it replaced a different
\* dataset; seen: the <<id, outcome>> pairs of the analyzeStudent calls since
\* the latest load; repeated: some id was analyzed again since that load.
NoHistory ==
  [loaded |-> FALSE, reloaded |-> FALSE, last |-> DataNull, seen |-> {},
   repeated |-> FALSE]

\* constructor() of both classes; main has not started
Init ==
  /\ history = NoHistory
  /\ data = DataNull
  /\ result = Call("new", "", NoResult)
  /\ aiInsights = "null"
  /\ pc = "start"
  /\ queue = <<>>
  /\ attempted = <<>>
  /\ analyzed = 0
  /\ validated = FALSE
  /\ reports = {}
  /\ aiLog = <<>>

\* loadData(jsonData) with a dataset already held kept: this.data =
\* this.data || jsonData
loadDataKeepingFirst(d, jsonData) == IF d.kind = "null" THEN jsonData ELSE d

\* the value of this.data after loadData(jsonData)
loadData(d, jsonData) == jsonData

\* loadData(jsonData)
LoadData(jsonData) ==
  /\ data' = loadData(data, jsonData)
  /\ result' = Call("loadData", "", NoResult)
  /\ validated' = FALSE
  /\ UNCHANGED appVars

\* validateData()
ValidateData ==
  /\ result' = Call("validateData", "", validateData(data))
  /\ validated' = (validateData(data).kind = "ok")
  /\ UNCHANGED <<data, appVars, history>>

\* analyzeStudent(studentId)
AnalyzeStudent(studentId) ==
  /\ result' = Call("analyzeStudent", studentId, analyzeStudent(data, studentId))
  /\ data' = dataAfterAnalysis(data, studentId)
  /\ UNCHANGED <<validated, appVars>>

\* getStudentIds()
GetStudentIds ==
  /\ result' = Call("getStudentIds", "", getStudentIds(data))
  /\ UNCHANGED <<data, validated, appVars, history>>

\* generateSummaryForAI(analysis) on the MetricsResult just returned
GenerateSummaryForAI ==
  /\ result.op = "analyzeStudent"
  /\ result.out.kind = "analysis"
  /\ result' = Call("generateSummaryForAI", result.arg, generateSummaryForAI(result.out))
  /\ UNCHANGED <<data, validated, appVars, history>>

\* The validator on one dataset, loaded once
LoadForValidation ==
  /\ data = DataNull
  /\ \E d \in ValidationInputs : LoadData(d)
  /\ UNCHANGED history

NextValidate == LoadForValidation \/ ValidateData

SpecValidate == Init /\ [][NextValidate]_vars

\* The metrics engine on one dataset, loaded once
LoadForAnalysis ==
  /\ data = DataNull
  /\ \E family \in 1..Len(AnalysisInputs) :
       \E d \in AnalysisInputs[family] : LoadData(d)
  /\ UNCHANGED history

AnalyzeSome ==
  /\ \E id \in AnalysisIds : AnalyzeStudent(id)
  /\ UNCHANGED history

NextAnalysis == LoadForAnalysis \/ AnalyzeSome \/ GenerateSummaryForAI

SpecAnalysis == Init /\ [][NextAnalysis]_vars

----------------------------------------------------------------------------
(* Properties of the budget analysis *)

\* the last call was analyzeStudent and it returned a MetricsResult
Analyzed == result.op = "analyzeStudent" /\ result.out.kind = "analysis"

\* the record the last analyzeStudent call found, and its transactions
AnalyzedStudent == data.students[findStudent(data, result.arg)]

AnalyzedTs == AnalyzedStudent.transactions.items

\* the band of a utilization given in tenths of a percent
BandOf(utilization) ==
  IF utilization <= 500 THEN "Conservative"
  ELSE IF utilization <= 750 THEN "Moderate"
  ELSE IF utilization <= 900 THEN "High"
  ELSE IF utilization <= 1000 THEN "Near Limit"
  ELSE "Over Budget"

\* C1: in every budget analysis the status is the band of the utilization
\* reported in the same result.
C1_StatusIsBandOfUtilization ==
  Analyzed => result.out.budget.status = BandOf(result.out.budget.utilization)

\* C1, the boundary table: a budget of 100 with 101 spent is "Over Budget"
C1_OverBudgetAnalyzed ==
  /\ Analyzed
  /\ result.out.budget.allocated = 100000
  /\ result.out.budget.spent = 101000
  /\ result.out.budget.status = "Over Budget"

----------------------------------------------------------------------------
(* Properties of the validator *)

Validated == result.op = "validateData"

\* the last validateData call failed on the fields of record number n
RecordFieldFailure ==
  /\ Validated
  /\ result.out.kind = "error"
  /\ result.out.student > 0
  /\ result.out.transaction = 0
  /\ result.out.error = <<"Missing required fields">>

\* C2: the record-level check fails only when the id is empty, the name is
\* empty or the budget limit is not defined; a budget limit of 0 is accepted.
C2_RecordCheckAcceptsZeroBudget ==
  RecordFieldFailure =>
    LET s == data.students[result.out.student]
    IN s.studentId = "" \/ s.name = "" \/ s.monthlyBudget.type = "undefined"

\* C3: a dataset that passes validation has pairwise distinct, non-empty ids.
C3_ValidatedIdsDistinct ==
  Validated /\ result.out.kind = "ok" =>
    /\ \A i \in 1..Len(data.students) : data.students[i].studentId # ""
    /\ \A i, j \in 1..Len(data.students) :
         i # j => data.students[i].studentId # data.students[j].studentId

\* some transaction of the dataset has no amount
SomeAmountMissing(d) ==
  \E i \in 1..Len(d.students) :
    /\ d.students[i].transactions.type = "array"
    /\ HasUndefinedAmount(d.students[i].transactions.items)

\* the transaction is complete in the sense of the specification
TxComplete(t) == t.date # "" /\ t.category # "" /\ t.amount.type # "undefined"

\* every field of every record and transaction is present (the budget limit
\* and the amounts may be 0)
AllFieldsPresent(d) ==
  /\ d.kind = "dataset"
  /\ \A i \in 1..Len(d.students) :
       LET s == d.students[i]
       IN /\ s.studentId # "" /\ s.name # ""
          /\ s.monthlyBudget.type # "undefined"
          /\ s.transactions.type = "array"
          /\ \A t \in 1..Len(s.transactions.items) : TxComplete(s.transactions.items[t])

\* the failure names record n, transaction t, and no transaction before that
\* one (in an earlier record, or earlier in record n) is incomplete
NamesFirstIncompleteTx(d, out) ==
  /\ out.student \in 1..Len(d.students)
  /\ d.students[out.student].transactions.type = "array"
  /\ out.transaction \in 1..Len(d.students[out.student].transactions.items)
  /\ ~TxComplete(d.students[out.student].transactions.items[out.transaction])
  /\ \A t \in 1..(out.transaction - 1) :
       TxComplete(d.students[out.student].transactions.items[t])
  /\ \A i \in 1..(out.student - 1) :
       d.students[i].transactions.type = "array" =>
         \A t \in 1..Len(d.students[i].transactions.items) :
           TxComplete(d.students[i].transactions.items[t])

\* C4: validateData fails when some transaction has no amount, a transaction
\* failure names the first offending record and transaction, and validateData
\* succeeds when every field is present, also with amounts of 0.
C4_MissingAmountRejectedCompleteAccepted ==
  Validated /\ data.kind = "dataset" =>
    /\ SomeAmountMissing(data) => result.out.kind = "error"
    /\ (result.out.kind = "error" /\ result.out.transaction > 0)
         => NamesFirstIncompleteTx(data, result.out)
    /\ AllFieldsPresent(data) => result.out.kind = "ok"

\* C4: a missing amount was rejected with the record and transaction named
C4_MissingAmountNamed ==
  /\ Validated
  /\ result.out.kind = "error"
  /\ result.out.student = 2
  /\ result.out.transaction = 2
  /\ data.students[2].transactions.items[2].amount.type = "undefined"

\* The checks of validateData that a dataset fails, each as
\* <<record number, check number, transaction number>>
FailedChecks(d) ==
  {<<i, 2, 0>> : i \in {j \in 1..Len(d.students) : studentFieldsInvalid(d.students[j])}}
  \cup
  {<<i, 3, 0>> : i \in {j \in 1..Len(d.students) : d.students[j].transactions.type # "array"}}
  \cup
  UNION {{<<i, 4, t>> : t \in {u \in 1..Len(d.students[i].transactions.items) :
                                 transactionInvalid(d.students[i].transactions.items[u])}} :
         i \in {j \in 1..Len(d.students) : d.students[j].transactions.type = "array"}}

\* the check number of a failure of validateData
CheckOf(out) ==
  IF out.student = 0 THEN 1
  ELSE IF out.error = <<"Missing or invalid transactions">> THEN 3
  ELSE IF out.transaction > 0 THEN 4
  ELSE 2

Reported(out) == <<out.student, CheckOf(out), out.transaction>>

\* f is not behind g, records first, then checks, then transactions
NotBehind(f, g) ==
  \/ f[1] < g[1]
  \/ f[1] = g[1] /\ f[2] < g[2]
  \/ f[1] = g[1] /\ f[2] = g[2] /\ f[3] <= g[3]

\* C5 as amended: check 1 comes first; then the records are taken in dataset
\* order and checks 2, 3, 4 are applied to each record in turn, and the
\* failure reported is the first failed check in that order.
C5_FirstFailureRecordByRecord ==
  Validated =>
    IF data.kind # "dataset"
    THEN result.out.kind = "error" /\ CheckOf(result.out) = 1
    ELSE IF FailedChecks(data) = {} THEN result.out.kind = "ok"
    ELSE /\ result.out.kind = "error"
         /\ Reported(result.out) \in FailedChecks(data)
         /\ \A f \in FailedChecks(data) : NotBehind(Reported(result.out), f)

\* C5 as stated: the failure reported is that of the lowest-numbered check
\* that the dataset violates.
C5_LowestNumberedCheckReported ==
  (Validated /\ data.kind = "dataset" /\ FailedChecks(data) # {}) =>
    /\ result.out.kind = "error"
    /\ \A f \in FailedChecks(data) : CheckOf(result.out) <= f[2]

\* C5: the first record has a defective transaction, the second lacks a name,
\* and the failure reported is the transaction error of the first record
C5_SeveralChecksViolated ==
  /\ Validated
  /\ Len(data.students) = 2
  /\ <<1, 4, 1>> \in FailedChecks(data)
  /\ <<2, 2, 0>> \in FailedChecks(data)
  /\ data.students[2].name = ""
  /\ Reported(result.out) = <<1, 4, 1>>

----------------------------------------------------------------------------
(* Properties of the lookup *)

\* some record of the loaded dataset carries the id
Carried(id) == \E i \in 1..Len(data.students) : data.students[i].studentId = id

\* the outcome of the last call is the not-found error
IsNotFound(out) ==
  /\ out.kind = "error"
  /\ Len(out.error) > 1
  /\ out.error[1] = "Student "
  /\ out.error[Len(out.error)] = " not found"

\* the last call was analyzeStudent on a loaded dataset
LookedUp == result.op = "analyzeStudent" /\ data.kind = "dataset"

\* C7: with a dataset loaded, analyzeStudent(id) for an id no record carries
\* fails with an error naming that id and returns no MetricsResult; for an id
\* some record carries it never raises that error; the call leaves the loaded
\* dataset as it was.
C7_UnknownIdFailsNamingId ==
  /\ [](LookedUp =>
          IF Carried(result.arg) THEN ~IsNotFound(result.out)
          ELSE result.out = Threw(<<"Student ", result.arg, " not found">>))
  /\ [][result'.op = "analyzeStudent" /\ result' # result => data' = data]_vars

\* C7: analyzeStudent was called with an id that no record of the loaded,
\* non-empty dataset carries
C7_UnknownIdLookedUp ==
  /\ LookedUp
  /\ Len(data.students) > 0
  /\ ~Carried(result.arg)
  /\ result.out.kind = "error"

----------------------------------------------------------------------------
(* Properties of the category breakdown *)

\* the position of the first transaction that carries the category label
FirstSeenAt(ts, category) == First({i \in 1..Len(ts) : ts[i].category = category})

\* C9: the categories are sorted by summed amount, descending, and two
\* categories with the same summed amount appear in the order in which their
\* labels were first seen among the transactions, for every label.
C9_RankedByAmountThenFirstSeen ==
  Analyzed =>
    LET cs == result.out.categories
    IN \A i, j \in 1..Len(cs) :
         i < j =>
           /\ cs[i].amount >= cs[j].amount
           /\ cs[i].amount = cs[j].amount =>
                FirstSeenAt(AnalyzedTs, cs[i].name) < FirstSeenAt(AnalyzedTs, cs[j].name)

\* C9: two categories with the same summed amount were ranked
C9_TieRanked ==
  /\ Analyzed
  /\ Len(result.out.categories) >= 2
  /\ result.out.categories[1].amount = result.out.categories[2].amount
  /\ result.out.categories[1].name = "Food"
  /\ result.out.categories[2].name = "Books"

RECURSIVE SumPercentages(_)
SumPercentages(cs) ==
  IF cs = <<>> THEN 0
  ELSE SumPercentages(SubSeq(cs, 1, Len(cs) - 1)) + cs[Len(cs)].percentage

\* the sum of the percentages is 100 within 0.1 per category
SumsTo100(cs) ==
  /\ SumPercentages(cs) - 1000 <= Len(cs)
  /\ 1000 - SumPercentages(cs) <= Len(cs)

\* C10 as amended: when the amounts add up to more than 0 the percentages of
\* all categories sum to 100 within 0.1 per category; when they add up to 0
\* every percentage is 0.
C10_PercentagesSumTo100IfSpent ==
  (Analyzed /\ Len(AnalyzedTs) > 0) =>
    IF SumAmounts(AnalyzedTs) > 0 THEN SumsTo100(result.out.categories)
    ELSE \A i \in 1..Len(result.out.categories) :
           result.out.categories[i].percentage = 0

\* C10 as stated: for every non-empty transaction collection the percentages
\* sum to 100 within 0.1 per category.
C10_PercentagesSumTo100 ==
  (Analyzed /\ Len(AnalyzedTs) > 0) => SumsTo100(result.out.categories)

\* C10: three categories with a third of the spending each, 33.3% each
C10_ThirdsAnalyzed ==
  /\ Analyzed
  /\ Len(result.out.categories) = 3
  /\ \A i \in 1..3 : result.out.categories[i].percentage = 333

----------------------------------------------------------------------------
(* Arithmetic the properties are stated in, independent of the analyzer *)

\* the last call was analyzeStudent for a record that has a transaction
\* collection of numeric amounts and a numeric budget limit
AnalysisDue ==
  /\ LookedUp
  /\ Carried(result.arg)
  /\ AnalyzedStudent.monthlyBudget.type = "number"
  /\ AnalyzedStudent.transactions.type = "array"
  /\ \A i \in 1..Len(AnalyzedTs) : AnalyzedTs[i].amount.type = "number"

RECURSIVE TotalFrom(_, _)
\* the sum of the amounts of the transactions from position i on
TotalFrom(ts, i) ==
  IF i > Len(ts) THEN 0 ELSE ts[i].amount.val + TotalFrom(ts, i + 1)

\* r is n / d (n >= 0, d > 0) rounded to 2 decimals, halves up
RoundedTo2(r, n, d) ==
  /\ r % 10 = 0
  /\ 2 * r * d - 10 * d <= 2 * n
  /\ 2 * n < 2 * r * d + 10 * d

\* u, in tenths of a percent, is (n / d) * 100 rounded to 1 decimal, halves up
PercentRoundedTo1(u, n, d) ==
  /\ 2 * u * d - d <= 2000 * n
  /\ 2000 * n < 2 * u * d + d

----------------------------------------------------------------------------
(* Properties of the category breakdown, continued *)

Labels(ts) == {ts[i].category : i \in 1..Len(ts)}

Labelled(ts, label) == {i \in 1..Len(ts) : ts[i].category = label}

RECURSIVE LabelTotalFrom(_, _, _)
\* the sum of the amounts of the transactions with the label from position i on
LabelTotalFrom(ts, label, i) ==
  IF i > Len(ts) THEN 0
  ELSE (IF ts[i].category = label THEN ts[i].amount.val ELSE 0)
         + LabelTotalFrom(ts, label, i + 1)

RECURSIVE SumCounts(_)
SumCounts(cs) ==
  IF cs = <<>> THEN 0
  ELSE SumCounts(SubSeq(cs, 1, Len(cs) - 1)) + cs[Len(cs)].transactionCount

\* the entries partition the transactions by category label
PartitionsByCategory(cs, ts) ==
  /\ \A label \in Labels(ts) :
       Cardinality({i \in 1..Len(cs) : cs[i].name = label}) = 1
  /\ \A i \in 1..Len(cs) :
       /\ cs[i].name \in Labels(ts)
       /\ RoundedTo2(cs[i].amount, LabelTotalFrom(ts, cs[i].name, 1), 1)
       /\ cs[i].transactionCount = Cardinality(Labelled(ts, cs[i].name))
       /\ RoundedTo2(cs[i].averagePerTransaction,
                     LabelTotalFrom(ts, cs[i].name, 1),
                     Cardinality(Labelled(ts, cs[i].name)))
  /\ SumCounts(cs) = Len(ts)

\* C11: analyzeCategoricalSpending partitions the transactions by category:
\* for every transaction collection the analysis returns a category sequence
\* in which every distinct label of the input has exactly one entry, whose
\* amount is the sum of the amounts of the transactions with that label, whose
\* transactionCount is their number and whose averagePerTransaction is amount
\* / transactionCount, and the transactionCounts add up to the size of the
\* collection.
C11_CategoriesPartitionTransactions ==
  AnalysisDue => Analyzed /\ PartitionsByCategory(result.out.categories, AnalyzedTs)

\* C11, the end-to-end scenario: Food 120 + Food 80 + Books 60 +
\* Entertainment 40 gives the top category Food with 200 and 66.7%
C11_FoodOnTop ==
  /\ Analyzed
  /\ Len(result.out.categories) = 3
  /\ result.out.categories[1] =
       [name |-> "Food", amount |-> 200000, percentage |-> 667,
        transactionCount |-> 2, averagePerTransaction |-> 100000]

----------------------------------------------------------------------------
(* Properties of the spending metrics *)

\* C12: for every transaction collection spending.total is the sum of all
\* amounts rounded to 2 decimals once, at the end, and budget.spent of the
\* same analysis equals spending.total.
C12_TotalRoundedOnce ==
  Analyzed =>
    /\ RoundedTo2(result.out.spending.total, TotalFrom(AnalyzedTs, 1), 1)
    /\ result.out.budget.spent = result.out.spending.total

\* C12: two amounts of 0.004 each, which round to 0 one by one, were summed
\* to a total of 0.01
C12_SubCentAmountsSummed ==
  /\ Analyzed
  /\ Len(AnalyzedTs) = 2
  /\ \A i \in 1..2 : AnalyzedTs[i].amount.val = 4
  /\ result.out.spending.total = 10
  /\ result.out.budget.spent = 10

\* C13: spending.transactionCount is the size of the collection;
\* spending.average is total / transactionCount rounded to 2 decimals for a
\* non-empty collection and 0 for an empty one, whose analysis does not fail.
C13_AverageOfTransactions ==
  /\ Analyzed =>
       /\ result.out.spending.transactionCount = Len(AnalyzedTs)
       /\ Len(AnalyzedTs) = 0 => result.out.spending.average = 0
       /\ Len(AnalyzedTs) > 0 =>
            RoundedTo2(result.out.spending.average, TotalFrom(AnalyzedTs, 1),
                       Len(AnalyzedTs))
  /\ (AnalysisDue /\ Len(AnalyzedTs) = 0) => Analyzed

\* C13: amounts of 0.125 and 0.004 were averaged to 0.06
C13_SubCentAverage ==
  /\ Analyzed
  /\ Len(AnalyzedTs) = 2
  /\ TotalFrom(AnalyzedTs, 1) = 129
  /\ result.out.spending.transactionCount = 2
  /\ result.out.spending.average = 60

\* the distinct date values among the transactions
DistinctDates(ts) == {ts[i].date : i \in 1..Len(ts)}

\* C14: spending.dailyAverage is the total divided by the number of distinct
\* date values among the transactions, rounded to 2 decimals, and 0 when there
\* are no transactions.
C14_DailyAverageOverDistinctDates ==
  Analyzed =>
    /\ Len(AnalyzedTs) = 0 => result.out.spending.dailyAverage = 0
    /\ Len(AnalyzedTs) > 0 =>
         RoundedTo2(result.out.spending.dailyAverage, TotalFrom(AnalyzedTs, 1),
                    Cardinality(DistinctDates(AnalyzedTs)))

\* C14: four transactions on three days, 300 in all, give a daily average of
\* 100
C14_TwoTransactionsOnOneDay ==
  /\ Analyzed
  /\ Len(AnalyzedTs) = 4
  /\ Cardinality(DistinctDates(AnalyzedTs)) = 3
  /\ result.out.spending.total = 300000
  /\ result.out.spending.dailyAverage = 100000

----------------------------------------------------------------------------
(* Properties of the budget analysis, continued *)

\* C15: budget.utilization is (spent / allocated) * 100 rounded to 1 decimal
\* when allocated is not 0 and is 0 when allocated is 0, whatever was spent.
C15_UtilizationGuarded ==
  Analyzed =>
    LET b == result.out.budget
    IN /\ b.allocated = 0 => b.utilization = 0
       /\ b.allocated > 0 =>
            PercentRoundedTo1(b.utilization, TotalFrom(AnalyzedTs, 1), b.allocated)

\* C15: money was spent against a budget of 0 and the utilization is 0
C15_SpentWithoutBudget ==
  /\ Analyzed
  /\ result.out.budget.allocated = 0
  /\ result.out.budget.spent > 0
  /\ result.out.budget.utilization = 0

\* C16: in every budget analysis isOverBudget is true exactly when the
\* reported spent is strictly greater than the reported allocated.
C16_OverBudgetIffSpentExceedsAllocated ==
  Analyzed =>
    (result.out.budget.isOverBudget
       <=> result.out.budget.spent > result.out.budget.allocated)

\* C16: spent equal to allocated was reported as not over budget
C16_SpentEqualsAllocated ==
  /\ Analyzed
  /\ Len(AnalyzedTs) = 2
  /\ \A i \in 1..2 : AnalyzedTs[i].amount.val = 50000
  /\ result.out.budget.spent = result.out.budget.allocated
  /\ ~result.out.budget.isOverBudget

\* C17: in every budget analysis the reported fields satisfy
\* remaining = allocated - spent.
C17_RemainingIsAllocatedMinusSpent ==
  Analyzed =>
    result.out.budget.remaining
      = result.out.budget.allocated - result.out.budget.spent

\* C17: spending exceeded the budget and the remaining amount is negative
C17_NegativeRemaining ==
  /\ Analyzed
  /\ result.out.budget.allocated = 100000
  /\ result.out.budget.spent = 115000
  /\ result.out.budget.remaining = 0 - 15000

\* C24 as stated: in every budget analysis, for every non-negative budget
\* including 0, isOverBudget is true exactly when status is "Over Budget".
C24_OverBudgetIffStatus ==
  Analyzed =>
    (result.out.budget.isOverBudget <=> result.out.budget.status = "Over Budget")

\* C24: for a budget greater than 0, isOverBudget is true exactly when status
\* is "Over Budget"; for a budget of 0 the status is "Conservative" whatever
\* was spent, and isOverBudget is true exactly when the amounts sum to more
\* than 0.
C24_OverBudgetIffStatusOfPositiveBudget ==
  Analyzed =>
    LET b == result.out.budget
    IN /\ b.allocated > 0 => (b.isOverBudget <=> b.status = "Over Budget")
       /\ b.allocated = 0 =>
            /\ b.status = "Conservative"
            /\ b.isOverBudget <=> TotalFrom(AnalyzedTs, 1) > 0

\* C24: money was spent against a budget of 0: the analysis is flagged over
\* budget and its status is "Conservative"
C24_FlaggedButConservative ==
  /\ Analyzed
  /\ result.out.budget.allocated = 0
  /\ TotalFrom(AnalyzedTs, 1) > 0
  /\ result.out.budget.isOverBudget
  /\ result.out.budget.status = "Conservative"

----------------------------------------------------------------------------
(* Properties of the timeline analysis *)

\* the sentinel for a collection without transactions
Sentinel == [date |-> "null", amount |-> 0]

\* C18: analyzing a record with zero transactions does not fail; average,
\* dailyAverage and utilization are 0, the category sequence and the daily
\* sequence are empty, and highestSpendingDay and lowestSpendingDay are both
\* the sentinel {date: null, amount: 0}.
C18_NoTransactionsGiveZeroDefaults ==
  (AnalysisDue /\ Len(AnalyzedTs) = 0) =>
    /\ Analyzed
    /\ result.out.spending.average = 0
    /\ result.out.spending.dailyAverage = 0
    /\ result.out.budget.utilization = 0
    /\ result.out.categories = <<>>
    /\ result.out.timeline.dailySpending = <<>>
    /\ result.out.timeline.highestSpendingDay = Sentinel
    /\ result.out.timeline.lowestSpendingDay = Sentinel

\* C18: a record with a budget and no transactions was analyzed
C18_EmptyRecordAnalyzed ==
  /\ Analyzed
  /\ Len(AnalyzedTs) = 0
  /\ result.out.budget.allocated = 100000
  /\ result.out.spending.transactionCount = 0
  /\ result.out.timeline.highestSpendingDay.date = "null"

\* the calendar, in chronological order
Calendar == <<"2024-01-01", "2024-01-02", "2024-01-03">>

DayOf(date) == CHOOSE k \in 1..Len(Calendar) : Calendar[k] = date

RECURSIVE DateTotalFrom(_, _, _)
\* the sum of the amounts of the transactions of the date from position i on
DateTotalFrom(ts, date, i) ==
  IF i > Len(ts) THEN 0
  ELSE (IF ts[i].date = date THEN ts[i].amount.val ELSE 0)
         + DateTotalFrom(ts, date, i + 1)

\* C19: the daily sequence has exactly one entry per distinct transaction
\* date, whose amount is the sum of the amounts of the transactions on that
\* date, and is ordered strictly ascending by chronological date; these
\* three determine the sequence, so it does not depend on the order of the
\* transactions.
C19_DailySequenceByDate ==
  Analyzed =>
    LET ds == result.out.timeline.dailySpending
    IN /\ \A d \in DistinctDates(AnalyzedTs) :
            Cardinality({i \in 1..Len(ds) : ds[i].date = d}) = 1
       /\ \A i \in 1..Len(ds) :
            /\ ds[i].date \in DistinctDates(AnalyzedTs)
            /\ RoundedTo2(ds[i].amount, DateTotalFrom(AnalyzedTs, ds[i].date, 1), 1)
       /\ \A i, j \in 1..Len(ds) : i < j => DayOf(ds[i].date) < DayOf(ds[j].date)

\* C19: 2024-01-02: 40, 2024-01-01: 10, 2024-01-02: 5 gave
\* [2024-01-01: 10, 2024-01-02: 45]
C19_LaterDayFirstInInput ==
  /\ Analyzed
  /\ AnalyzedTs = <<Tx("2024-01-02", "Food", Num(40000)),
                    Tx("2024-01-01", "Food", Num(10000)),
                    Tx("2024-01-02", "Food", Num(5000))>>
  /\ result.out.timeline.dailySpending =
       <<[date |-> "2024-01-01", amount |-> 10000],
         [date |-> "2024-01-02", amount |-> 45000]>>

\* day is the earliest entry of ds among those with the maximum amount
EarliestHighest(ds, day) ==
  \E i \in 1..Len(ds) :
    /\ ds[i] = day
    /\ \A j \in 1..Len(ds) : ds[j].amount <= day.amount
    /\ \A j \in 1..(i - 1) : ds[j].amount < day.amount

\* day is the earliest entry of ds among those with the minimum amount
EarliestLowest(ds, day) ==
  \E i \in 1..Len(ds) :
    /\ ds[i] = day
    /\ \A j \in 1..Len(ds) : ds[j].amount >= day.amount
    /\ \A j \in 1..(i - 1) : ds[j].amount > day.amount

\* C20: for every non-empty transaction collection highestSpendingDay is
\* the entry of the date-ordered daily sequence with the maximum amount and
\* lowestSpendingDay the entry with the minimum amount, in each case the
\* earliest such entry.
C20_EarliestHighestAndLowestDay ==
  (Analyzed /\ Len(AnalyzedTs) > 0) =>
    LET t == result.out.timeline
    IN /\ EarliestHighest(t.dailySpending, t.highestSpendingDay)
       /\ EarliestLowest(t.dailySpending, t.lowestSpendingDay)

\* C20: the two earlier of three days tie for the highest amount, the later
\* of the two comes first in the input, and the earlier one is reported
C20_TieForHighest ==
  /\ Analyzed
  /\ Len(result.out.timeline.dailySpending) = 3
  /\ AnalyzedTs[1].date = "2024-01-02"
  /\ result.out.timeline.dailySpending[1].amount = 40000
  /\ result.out.timeline.dailySpending[2].amount = 40000
  /\ result.out.timeline.dailySpending[3].amount = 5000
  /\ result.out.timeline.highestSpendingDay.date = "2024-01-01"
  /\ result.out.timeline.lowestSpendingDay.date = "2024-01-03"

----------------------------------------------------------------------------
(* Properties of the summary *)

\* the wording of the section headings, in the order of the layout
Sections ==
  <<"STUDENT PROFILE:", "BUDGET ANALYSIS:", "SPENDING PATTERNS:",
    "CATEGORY BREAKDOWN:", "SPENDING TIMELINE:">>

\* the positions of the five headings in the text, if each occurs once
HeadingAt(text, k) == CHOOSE i \in 1..Len(text) : text[i].text = Sections[k]

\* each heading occurs exactly once, the first one opens the text, the
\* headings come in the order of the layout, and each section shows its
\* own fields
SectionsInOrder(text, analysis) ==
  /\ \A k \in 1..5 :
       Cardinality({i \in 1..Len(text) : text[i].text = Sections[k]}) = 1
  /\ HeadingAt(text, 1) = 1
  /\ \A k \in 1..4 : HeadingAt(text, k) < HeadingAt(text, k + 1)
  /\ \E i \in (HeadingAt(text, 1) + 1)..(HeadingAt(text, 2) - 1) :
       text[i].strs = <<analysis.studentInfo.id>>
  /\ \E i \in (HeadingAt(text, 2) + 1)..(HeadingAt(text, 3) - 1) :
       text[i].strs = <<analysis.budget.status>>
  /\ \E i \in (HeadingAt(text, 3) + 1)..(HeadingAt(text, 4) - 1) :
       text[i].nums = <<analysis.spending.transactionCount>>
  /\ \E i \in (HeadingAt(text, 5) + 1)..Len(text) :
       /\ text[i].strs = <<analysis.timeline.highestSpendingDay.date>>
       /\ text[i].nums = <<analysis.timeline.highestSpendingDay.amount>>

\* the category section is one line that names the ranked categories, one entry
\* each with amount and percentage, in the order of the ranked sequence
CategoriesAsRanked(text, cs) ==
  LET line == text[HeadingAt(text, 4) + 1]
  IN /\ HeadingAt(text, 4) + 2 < HeadingAt(text, 5)
     /\ Len(line.strs) = Len(cs)
     /\ Len(line.nums) = 2 * Len(cs)
     /\ \A i \in 1..Len(cs) :
          /\ line.strs[i] = cs[i].name
          /\ line.nums[2 * i - 1] = cs[i].amount
          /\ line.nums[2 * i] = cs[i].percentage

\* C23: generateSummaryForAI emits its sections in the order profile
\* identity, budget analysis, spending-pattern metrics, category breakdown,
\* timeline highlights; the category section has one entry per ranked
\* category in the order of the ranked sequence; and the MetricsResult it was
\* given is afterwards what it was before.
C23_SummaryFollowsLayoutAndRanking ==
  [][(result'.op = "generateSummaryForAI" /\ result.op = "analyzeStudent") =>
       /\ result'.out.analysis = result.out
       /\ SectionsInOrder(result'.out.text, result.out)
       /\ CategoriesAsRanked(result'.out.text, result.out.categories)]_vars

\* C23: a summary was made of a ranking that puts the second category of the
\* transactions first
C23_RankedSummaryMade ==
  /\ result.op = "generateSummaryForAI"
  /\ Len(result.out.analysis.categories) = 2
  /\ AnalyzedTs[1].category = "Books"
  /\ result.out.analysis.categories[1].name = "Food"
  /\ result.out.text[HeadingAt(result.out.text, 4) + 1].strs = <<"Food", "Books">>

----------------------------------------------------------------------------
(* The application: SpendAnalysisApp and main *)

\* what fs.readFile and JSON.parse make of ./data/student-data.json
Unreadable == [read |-> "unreadable", value |-> DataNull]

Malformed == [read |-> "malformed", value |-> DataNull]

Parsed(d) == [read |-> "parsed", value |-> d]

AppStudents ==
  {Student("S1", "Ann", Num(100000), Arr(<<GoodTx, ZeroTx, GoodTx, GoodTx>>)),
   Student("S2", "Bob", Num(100000), Arr(<<GoodTx>>)),
   Student("S3", "Cyd", Num(100000), Arr(<<Tx("2024-01-01", "Food", Str)>>)),
   Student("S4", "", Num(100000), Arr(<<>>)),
   Student("S1", "Dup", Num(50000), Arr(<<>>))}

Files ==
  {Unreadable, Malformed, Parsed(DataNull), Parsed(DataNoStudents)}
  \cup {Parsed(Dataset(s)) : s \in SeqsUpTo(AppStudents, MaxStudents)}

\* loadDataFromFile(filePath): the value of this.data afterwards and whether
\* the call returned or threw.  this.data is assigned before
\* this.data.students.length is read.
loadDataFromFile(d, file) ==
  IF file.read # "parsed"
  THEN [data |-> d, out |-> Threw(<<"Failed to load data: ", file.read>>)]
  ELSE IF file.value.kind # "dataset"
  THEN [data |-> file.value, out |-> Threw(<<"Failed to load data: ", "TypeError">>)]
  ELSE [data |-> file.value, out |-> Passed]

\* the value SpendAnalysisApp.loadData returns with this still thrown mistaken
\* for success
appLoadDataReturnsAlwaysTrue(loaded, checked) == TRUE

\* the value SpendAnalysisApp.loadData returns, given the outcomes of
\* loadDataFromFile and of validateData
appLoadDataReturns(loaded, checked) == loaded.kind = "ok" /\ checked.kind = "ok"

\* where the loop of analyzeAllStudents goes after a record when the error
\* of a record is thrown on instead of caught
afterRecordRethrowing(caught, rest) ==
  IF caught THEN "exit1" ELSE IF rest = <<>> THEN "summary" ELSE "analyzing"

\* where the loop of analyzeAllStudents goes after a record: the try/catch of
\* analyzeStudent keeps an error from leaving it
afterRecord(caught, rest) == IF rest = <<>> THEN "summary" ELSE "analyzing"

\* initialize(): the generator exists unless its constructor threw (no API
\* key); a failing fs.mkdir leaves initialize as an exception, to main's catch
Initialize ==
  /\ pc = "start"
  /\ aiInsights' \in {"null", "generator"}
  /\ \/ pc' = "load"
     \/ pc' = "exit1"
  /\ UNCHANGED <<data, result, queue, attempted, analyzed, validated, reports, aiLog,
               history>>

\* SpendAnalysisApp.loadData(), and main's test of what it returns
AppLoadData ==
  /\ pc = "load"
  /\ \E file \in Files :
       LET loaded == loadDataFromFile(data, file)
           checked == IF loaded.out.kind = "ok" THEN validateData(loaded.data)
                      ELSE loaded.out
       IN /\ data' = loaded.data
          /\ result' = IF loaded.out.kind = "ok"
                       THEN Call("validateData", "", checked)
                       ELSE Call("loadDataFromFile", "", loaded.out)
          /\ validated' = (loaded.out.kind = "ok" /\ validateData(loaded.data).kind = "ok")
          /\ pc' = IF appLoadDataReturns(loaded.out, checked) THEN "analyzeAll"
                   ELSE "aborted"
  /\ UNCHANGED <<aiInsights, queue, attempted, analyzed, reports, aiLog, history>>

\* analyzeAllStudents() up to its loop; an error of getStudentIds is not caught
\* before main
AnalyzeAllStudents ==
  /\ pc = "analyzeAll"
  /\ result' = Call("getStudentIds", "", getStudentIds(data))
  /\ IF getStudentIds(data).kind = "error"
     THEN queue' = <<>> /\ pc' = "exit1"
     ELSE /\ queue' = getStudentIds(data).ids
          /\ pc' = IF queue' = <<>> THEN "summary" ELSE "analyzing"
  /\ UNCHANGED <<data, aiInsights, attempted, analyzed, validated, reports, aiLog,
               history>>

\* how the chat completion request of the generator ends
ApiOutcomes == {"answers", "fails"}

\* let insights = null: the generator was not asked
NoInsights == [kind |-> "null"]

\* generateInsights with the error of the request thrown on instead of caught
generateInsightsRaising(api) ==
  IF api = "answers"
  THEN [kind |-> "insights", success |-> TRUE, insights |-> "narrative"]
  ELSE Threw(<<"AI insights generation failed">>)

\* generateInsights(spendingData): the narrative of the completion, or from
\* the catch the failure indication with the fallback text
generateInsights(api) ==
  IF api = "answers"
  THEN [kind |-> "insights", success |-> TRUE, insights |-> "narrative"]
  ELSE [kind |-> "insights", success |-> FALSE, insights |-> "fallback"]

\* what one pass of SpendAnalysisApp.analyzeStudent did
Attempt(id, analysis, insights, predictions, saveReport) ==
  [id |-> id, analysis |-> analysis, insights |-> insights,
   predictions |-> predictions, saveReport |-> saveReport]

\* SpendAnalysisApp.analyzeStudent(studentId) for the next id of the loop
AppAnalyzeStudent ==
  /\ pc = "analyzing"
  /\ LET studentId == Head(queue)
         analysis == analyzeStudent(data, studentId)
     IN /\ attempted' = Append(attempted, studentId)
        /\ analyzed' = analyzed + 1
        /\ result' = Call("analyzeStudent", studentId, analysis)
        /\ IF analysis.kind = "error"
           THEN /\ aiLog' = Append(aiLog, Attempt(studentId, "threw", NoInsights, FALSE, 0))
                /\ reports' = reports
           ELSE \E api \in ApiOutcomes :
                  LET insights == IF aiInsights = "generator"
                                  THEN generateInsights(api) ELSE NoInsights
                      raised == insights.kind = "error"
                      predictions == /\ aiInsights = "generator"
                                     /\ ~raised
                                     /\ analysis.spending.transactionCount > 3
                  IN /\ aiLog' = Append(aiLog,
                          Attempt(studentId, "ok", insights, predictions,
                                  IF raised THEN 0 ELSE 1))
                     /\ \/ ~raised /\ reports' = reports \cup {studentId}
                        \/ reports' = reports
        /\ pc' = afterRecord(analysis.kind = "error", Tail(queue))
  /\ queue' = Tail(queue)
  /\ UNCHANGED <<data, aiInsights, validated, history>>

\* generateSummaryReport(): one analysis per id, then the class summary is
\* written; a failing fs.writeFile goes to main's catch
GenerateSummaryReport ==
  /\ pc = "summary"
  /\ IF getStudentIds(data).kind = "error"
     THEN analyzed' = analyzed /\ reports' = reports /\ pc' = "exit1"
     ELSE /\ analyzed' = analyzed + Len(getStudentIds(data).ids)
          /\ \/ reports' = reports \cup {"class_summary"} /\ pc' = "done"
             \/ reports' = reports /\ pc' = "exit1"
  /\ UNCHANGED <<data, result, aiInsights, queue, attempted, validated, aiLog,
               history>>

Next ==
  \/ Initialize
  \/ AppLoadData
  \/ AnalyzeAllStudents
  \/ AppAnalyzeStudent
  \/ GenerateSummaryReport

Spec == Init /\ [][Next]_vars

----------------------------------------------------------------------------
(* Properties of the application flow *)

\* C6: in the flow of main no analysis is run unless validateData has passed
\* on the dataset now loaded; when loading or validation fails the batch is
\* abandoned: no record is analyzed and no report is written.
C6_AnalysisOnlyAfterValidation ==
  /\ analyzed > 0 => validated
  /\ pc \in {"analyzeAll", "analyzing", "summary", "done"} => validated
  /\ ~validated => analyzed = 0 /\ attempted = <<>> /\ reports = {}
  /\ pc = "aborted" => ~validated /\ queue = <<>>

\* C6: a dataset was read from the file, validateData rejected it, and main
\* has returned
C6_RejectedDatasetAbandoned ==
  /\ pc = "aborted"
  /\ data.kind = "dataset"
  /\ Len(data.students) = 2
  /\ result.op = "validateData"
  /\ result.out.kind = "error"

\* the ids analyzeAllStudents iterates over
BatchIds == IF data.kind = "dataset" THEN getStudentIds(data).ids ELSE <<>>

\* C8: analyzeAllStudents attempts the id of every record once, in dataset
\* order, whatever failed before: while the loop runs, the ids attempted and
\* the ids still to come make up the ids of the dataset, and after the loop
\* the ids attempted are exactly the ids of the dataset.
C8_EveryRecordAttemptedInOrder ==
  /\ Len(aiLog) = Len(attempted)
  /\ pc = "analyzing" => queue # <<>> /\ attempted \o queue = BatchIds
  /\ pc \in {"summary", "done", "exit1"} => attempted = BatchIds

\* C8: the analysis of the first record threw, the second record was
\* analyzed, and the loop is over
C8_LoopSurvivedFailure ==
  /\ pc = "summary"
  /\ Len(aiLog) = 2
  /\ aiLog[1].analysis = "threw"
  /\ aiLog[2].analysis = "ok"

\* the number of transactions of the record an id is looked up to
TransactionsOf(id) ==
  LET at == {i \in 1..Len(data.students) : data.students[i].studentId = id}
  IN Len(data.students[CHOOSE i \in at : \A j \in at : i <= j].transactions.items)

\* C27: generateInsights returns a failure indication with the fallback text
\* instead of raising; for every record whose analysis succeeded
\* SpendAnalysisApp.analyzeStudent reaches saveReport exactly once, whether the
\* generator is absent, fails or succeeds; and predictions are requested only
\* when the generator is available and the record has more than 3
\* transactions.
C27_ReportDespiteGenerator ==
  \A i \in 1..Len(aiLog) :
    LET a == aiLog[i]
    IN /\ a.insights.kind \in {"null", "insights"}
       /\ a.insights.kind = "insights" =>
            (a.insights.success \/ a.insights.insights = "fallback")
       /\ a.analysis = "ok" =>
            /\ a.saveReport = 1
            /\ a.insights.kind = "insights" <=> aiInsights = "generator"
       /\ a.predictions =>
            /\ aiInsights = "generator"
            /\ a.analysis = "ok"
            /\ TransactionsOf(a.id) > 3

\* C27: the generator failed for a record with four transactions; predictions
\* were requested and saveReport was reached
C27_ReportAfterFailedGenerator ==
  /\ Len(aiLog) > 0
  /\ aiLog[1].analysis = "ok"
  /\ aiLog[1].insights.kind = "insights"
  /\ ~aiLog[1].insights.success
  /\ aiLog[1].predictions
  /\ aiLog[1].saveReport = 1

----------------------------------------------------------------------------
(* Loading from files *)

\* loadDataFromFile(filePath) on the analyzer, whatever it holds
LoadFromFile ==
  /\ \E file \in Files :
       /\ data' = loadDataFromFile(data, file).data
       /\ result' = Call("loadDataFromFile", "", loadDataFromFile(data, file).out)
  /\ validated' = FALSE
  /\ UNCHANGED <<appVars, history>>

NextFileLoad == LoadFromFile \/ AnalyzeSome \/ GetStudentIds

SpecFileLoad == Init /\ [][NextFileLoad]_vars

\* C25: whenever loadDataFromFile fails (unreadable file, malformed content,
\* or content without a records collection), getStudentIds and analyzeStudent
\* behave after the failure exactly as they did before the call.
C25_FailedLoadKeepsDataset ==
  [][(result'.op = "loadDataFromFile" /\ result'.out.kind = "error") =>
       /\ getStudentIds(data') = getStudentIds(data)
       /\ \A id \in AnalysisIds : analyzeStudent(data', id) = analyzeStudent(data, id)]_vars

\* C25: a load failed on an unreadable or malformed file and the dataset held
\* before is still there
C25_FailedReadKeptDataset ==
  /\ result.op = "loadDataFromFile"
  /\ result.out.kind = "error"
  /\ data.kind = "dataset"
  /\ Len(data.students) > 0

----------------------------------------------------------------------------
(* The analyzer over its lifetime: any number of loads, lookups and analyses *)

\* loadData(jsonData), observed
LifecycleLoad ==
  \E d \in LifecycleInputs :
    /\ LoadData(d)
    /\ history' = [loaded |-> TRUE,
                   reloaded |-> history.loaded /\ d # history.last,
                   last |-> d, seen |-> {}, repeated |-> FALSE]

\* analyzeStudent(studentId), observed
LifecycleAnalyze ==
  \E id \in AnalysisIds :
    /\ AnalyzeStudent(id)
    /\ history' = [history EXCEPT
                     !.seen = @ \cup {<<id, analyzeStudent(data, id)>>},
                     !.repeated = @ \/ \E e \in history.seen : e[1] = id]

NextLifecycle == LifecycleLoad \/ LifecycleAnalyze \/ GetStudentIds

SpecLifecycle == Init /\ [][NextLifecycle]_vars

UniqueIds(d) ==
  \A i, j \in 1..Len(d.students) :
    i # j => d.students[i].studentId # d.students[j].studentId

\* the one record of a dataset with unique ids that carries the id
RecordOf(d, id) ==
  d.students[CHOOSE i \in 1..Len(d.students) : d.students[i].studentId = id]

\* C22: for a dataset with unique ids, the outcome of analyzing a record is
\* the outcome of analyzing that record alone, in every order in which the
\* records are analyzed and whatever the other records contain.
C22_AnalysisOfRecordAlone ==
  (LookedUp /\ UniqueIds(data) /\ Carried(result.arg)) =>
    result.out = analyzeStudent(Dataset(<<RecordOf(data, result.arg)>>), result.arg)

\* C22: the second of two records was analyzed after the first
C22_SecondRecordAfterFirst ==
  /\ Analyzed
  /\ Len(data.students) = 2
  /\ UniqueIds(data)
  /\ result.arg = data.students[2].studentId
  /\ \E e \in history.seen : e[1] = data.students[1].studentId

\* the ids of the records of a dataset, in order
IdsOf(d) == [i \in 1..Len(d.students) |-> d.students[i].studentId]

\* C26: before loadData has been called analyzeStudent fails with the 'no
\* data loaded' error and getStudentIds returns the empty list; afterwards
\* both reflect the dataset of the latest loadData call only.
C26_LatestLoadOnly ==
  /\ (~history.loaded /\ result.op = "analyzeStudent") =>
       result.out = Threw(<<"No data loaded. Call loadData() first.">>)
  /\ (~history.loaded /\ result.op = "getStudentIds") =>
       result.out = [kind |-> "ids", ids |-> <<>>]
  /\ (history.loaded /\ result.op = "analyzeStudent") =>
       result.out = analyzeStudent(history.last, result.arg)
  /\ (history.loaded /\ result.op = "getStudentIds") =>
       result.out = [kind |-> "ids", ids |-> IdsOf(history.last)]

\* C26: a dataset was replaced by a different one and an id that both carry
\* was analyzed
C26_AnalyzedAfterReload ==
  /\ history.reloaded
  /\ Analyzed
  /\ result.arg = "S1"
  /\ result.out.studentInfo.name = "Cyd"

====
